---- MODULE Spec2Model ----
(***************************************************************************)
(* Model of the MVBC user library: the JSON project-configuration loader   *)
(* (mvbc_lib/lib/json_parser.c) and the device bring-up sequence of        *)
(* mvbc_init (mvbc_lib/lib/lib_main.c).                                    *)
(*                                                                         *)
(* Strings are sequences of character codes, a character buffer is a       *)
(* sequence of exactly MAX_STRING_LENGTH bytes, 0 is the NUL byte.         *)
(* JSON numbers are kept in tenths (15 stands for 1.5) so that the C       *)
(* conversion (int) of a double is a real truncation.                      *)
(***************************************************************************)
EXTENDS Integers, Sequences, FiniteSets, TLC

(***************************************************************************)
(* Bounds of the model.  The three capacities of the program are scaled    *)
(* to these: MAX_PORT_COUNT is 4095 in mvbc_lib.h, MAX_MVBC_DEVICES and    *)
(* MAX_STRING_LENGTH come from the driver header mvbc_ioctl_interface.h.   *)
(* The model is parametric in all three.                                   *)
(***************************************************************************)
MaxPorts == 2
MaxDevices == 2
MaxStrLen == 6

MAX_PORT_COUNT == MaxPorts
MAX_MVBC_DEVICES == MaxDevices
MAX_STRING_LENGTH == MaxStrLen

(***************************************************************************)
(* enum configErrors, enum initErrors                                      *)
(***************************************************************************)
NO_ERROR == 0
ERROR_CONFIG_INVALID_PARAMETER == -200
ERROR_CONFIG_FILE_READ == -201
ERROR_CONFIG_FILE_PARAMETER == -202

ERROR_SET_DEVICE_CONFIG == 8
ERROR_SET_PORT_CONFIG == 16
ERROR_RUN_MVBC == 32

(***************************************************************************)
(* enum eInterfaceType, eMode, ePortDirection, ePortType                   *)
(***************************************************************************)
eOGF == 0
eESD == 1
eEMD == 2

eStatic == 0
eDynamic == 1
eCombined == 2

eSink == 0
eSource == 1

eLA == 0
eDA == 1
ePP == 2

(***************************************************************************)
(* String literals of the sources, as character codes.                     *)
(***************************************************************************)
STR_NA == <<110, 47, 97>>                              \* "n/a"
STR_DEV == <<47, 100, 101, 118>>                       \* "/dev"
STR_EMD == <<69, 77, 68>>                              \* "EMD"
STR_ESD == <<69, 83, 68, 43>>                          \* "ESD+"
STR_OGF == <<79, 71, 70>>                              \* "OGF" (not accepted)
STR_static == <<115, 116, 97, 116, 105, 99>>           \* "static"
STR_dynamic == <<100, 121, 110, 97, 109, 105, 99>>     \* "dynamic"
STR_combined == <<99, 111, 109, 98, 105, 110, 101, 100>> \* "combined"
STR_auto == <<97, 117, 116, 111>>                      \* "auto" (not accepted)
STR_la == <<108, 97>>                                  \* "la"
STR_da == <<100, 97>>                                  \* "da"
STR_pp == <<112, 112>>                                 \* "pp"
STR_xx == <<120, 120>>                                 \* "xx" (not accepted)
STR_sink == <<115, 105, 110, 107>>                     \* "sink"
STR_source == <<115, 111, 117, 114, 99, 101>>          \* "source"
STR_up == <<117, 112>>                                 \* "up" (not accepted)

MVBC_JSON_CONF_DEFAULT_PROJECT_VERSION == STR_NA
MVBC_JSON_CONF_DEFAULT_PROJECT_NAME == STR_NA
MVBC_JSON_CONF_DEFAULT_DEVICE_DESCRIPTION == STR_NA
MVBC_JSON_CONF_DEFAULT_DEVICE_MEMORY_TEST == 0
MVBC_JSON_CONF_DEFAULT_PORT_NAME == STR_NA
MVBC_JSON_CONF_DEFAULT_PORT_TYPE == eLA
MVBC_JSON_CONF_DEFAULT_PORT_DIRECTION == eSink
MVBC_JSON_CONF_DEFAULT_PORT_POLL_MS == 16
MVBC_JSON_CONF_DEFAULT_PORT_IRQ == 0
MVBC_JSON_CONF_DEFAULT_PORT_NUM_DATA == 0

(***************************************************************************)
(* C library: strncpy, strcmp/strncmp on character sequences, memset.      *)
(***************************************************************************)
\* strncpy(dst, src, n): exactly n bytes are written; the bytes after the
\* end of src are NUL, and no NUL is written when src has n or more bytes.
Strncpy(src, n) == [k \in 1..n |-> IF k <= Len(src) THEN src[k] ELSE 0]

\* The C string a buffer holds: the bytes before the first NUL.
RECURSIVE CStrFrom(_, _)
CStrFrom(buf, k) ==
    IF k > Len(buf) \/ buf[k] = 0 THEN << >> ELSE <<buf[k]>> \o CStrFrom(buf, k + 1)

CStr(buf) == CStrFrom(buf, 1)

\* A buffer holds a terminated string iff one of its bytes is NUL.
Terminated(buf) == \E k \in 1..Len(buf) : buf[k] = 0

\* strncmp(dev, "/dev", 4) == 0 on the bytes of a buffer.
HasDevPrefix(buf) ==
    /\ Len(buf) >= 4
    /\ \A k \in 1..4 : buf[k] = STR_DEV[k]

\* memset(.., 0, ..) of one character buffer.
ZeroBuf == [k \in 1..MAX_STRING_LENGTH |-> 0]

(***************************************************************************)
(* Two's-complement bit operations on C ints (|, <<).                      *)
(***************************************************************************)
RECURSIVE BitOrNat(_, _)
BitOrNat(a, b) ==
    IF a = 0 THEN b
    ELSE IF b = 0 THEN a
    ELSE (IF (a % 2 = 1) \/ (b % 2 = 1) THEN 1 ELSE 0)
         + 2 * BitOrNat(a \div 2, b \div 2)

\* a & ~b on naturals
RECURSIVE BitAndNotNat(_, _)
BitAndNotNat(a, b) ==
    IF a = 0 THEN 0
    ELSE (IF (a % 2 = 1) /\ (b % 2 = 0) THEN 1 ELSE 0)
         + 2 * BitAndNotNat(a \div 2, b \div 2)

RECURSIVE BitAndNat(_, _)
BitAndNat(a, b) ==
    IF a = 0 \/ b = 0 THEN 0
    ELSE (IF (a % 2 = 1) /\ (b % 2 = 1) THEN 1 ELSE 0)
         + 2 * BitAndNat(a \div 2, b \div 2)

\* a | b on signed ints: for a negative operand x, ~x = -1 - x is a natural
\* and a | b = ~(~a & ~b).
BitOr(a, b) ==
    IF a >= 0 /\ b >= 0 THEN BitOrNat(a, b)
    ELSE IF a < 0 /\ b < 0 THEN -1 - BitAndNat(-1 - a, -1 - b)
    ELSE IF a < 0 THEN -1 - BitAndNotNat(-1 - a, b)
    ELSE -1 - BitAndNotNat(-1 - b, a)

RECURSIVE Shl(_, _)
Shl(x, n) == IF n = 0 THEN x ELSE Shl(2 * x, n - 1)

(***************************************************************************)
(* The parsed document (parson's value tree).  A value is a record with    *)
(* its JSON type; a key that is absent from the document is JNull.         *)
(***************************************************************************)
JSONString == "JSONString"
JSONNumber == "JSONNumber"
JSONArray == "JSONArray"
JSONObject == "JSONObject"
JSONAbsent == "JSONAbsent"

JNull == [type |-> JSONAbsent, str |-> << >>, num |-> 0, arr |-> << >>]
JStr(s) == [type |-> JSONString, str |-> s, num |-> 0, arr |-> << >>]
\* a number given in tenths
JTenths(t) == [type |-> JSONNumber, str |-> << >>, num |-> t, arr |-> << >>]
JNum(n) == JTenths(10 * n)
JArr(a) == [type |-> JSONArray, str |-> << >>, num |-> 0, arr |-> a]

\* the NULL char pointer
NULL == <<-1>>

\* json_object_dothas_value_of_type(obj, key, type)
HasValueOfType(v, t) == v.type = t
\* json_object_dotget_string: NULL unless the value is a string
DotGetString(v) == IF v.type = JSONString THEN v.str ELSE NULL
\* json_object_get_number: 0 unless the value is a number (in tenths)
GetNumber(v) == IF v.type = JSONNumber THEN v.num ELSE 0
\* json_object_dotget_array + json_array_get_count: 0 for a NULL array
ArrayCount(v) == IF v.type = JSONArray THEN Len(v.arr) ELSE 0
\* the C conversion (int)double: truncation toward zero
ToInt(tenths) == IF tenths >= 0 THEN tenths \div 10 ELSE -((-tenths) \div 10)

(***************************************************************************)
(* FieldValidators (json_parser.c)                                         *)
(***************************************************************************)
validateInterface(mode) ==
    IF mode = STR_EMD THEN eEMD
    ELSE IF mode = STR_ESD THEN eESD
    ELSE -1

validateMode(mode) ==
    IF mode = STR_static THEN eStatic
    ELSE IF mode = STR_dynamic THEN eDynamic
    ELSE IF mode = STR_combined THEN eCombined
    ELSE -1

validatePortType(type) ==
    IF type = STR_la THEN eLA
    ELSE IF type = STR_da THEN eDA
    ELSE IF type = STR_pp THEN ePP
    ELSE -1

validatePortDirection(direction) ==
    IF direction = STR_source THEN eSource
    ELSE IF direction = STR_sink THEN eSink
    ELSE -1

validateDeviceAddr(addr) == IF (addr <= 4095) /\ (addr > 0) THEN addr ELSE -1

\* validatePortAddr with 0 accepted as an address
validatePortAddr_ZeroBased(addr) == IF (addr <= 4095) /\ (addr >= 0) THEN addr ELSE -1

validatePortAddr(addr) == IF (addr <= 4095) /\ (addr > 0) THEN addr ELSE -1

validateFunctionalCode(fcode) == IF (fcode <= 15) /\ (fcode >= 0) THEN fcode ELSE -1

\* validatePollingTimeout with an interval outside the table rejected
validatePollingTimeout_Rejecting(poll_ms) ==
    IF poll_ms \in {1, 2, 4, 8, 16, 32, 64, 128, 256, 512, 1024} THEN poll_ms ELSE -1

validatePollingTimeout(poll_ms) ==
    IF poll_ms \in {1, 2, 4, 8} THEN poll_ms
    ELSE IF poll_ms \in {16, 32, 64, 128, 256, 512, 1024} THEN poll_ms
    ELSE MVBC_JSON_CONF_DEFAULT_PORT_POLL_MS

validateInterruptNumber(irq) == IF (irq <= 7) /\ (irq >= 0) THEN irq ELSE -1

validateNumericalData(num_data) ==
    IF (num_data = 0) \/ (num_data = 1) THEN num_data ELSE -1

(***************************************************************************)
(* struct sMvbcPortCfg, sMvbcPort, sMvbcDefaultPortCfg, sMvbcPorts,        *)
(* sMvbcDevCfg, sProject after memset(.., 0, ..).  C arrays are functions  *)
(* on 0..capacity-1.                                                       *)
(***************************************************************************)
ZeroPortCfg ==
    [iPortAddr |-> 0, iPortType |-> 0, iPortDirection |-> 0, iFunctionCode |-> 0,
     iPollIntervalMS |-> 0, iIrqNumber |-> 0, iNumData |-> 0]

ZeroPort == [cPortName |-> ZeroBuf, portCfg |-> ZeroPortCfg]

ZeroDefaultPortCfg == [wPortType |-> 0, wPollInterval |-> 0, iIrqNumber |-> 0, iNumData |-> 0]

ZeroPorts ==
    [mvbc_port_count |-> 0,
     defaultPortCfg |-> ZeroDefaultPortCfg,
     port |-> [j \in 0..(MAX_PORT_COUNT - 1) |-> ZeroPort]]

ZeroDevCfg ==
    [cDescription |-> ZeroBuf, cDevPath |-> ZeroBuf, iInterface |-> 0, iMode |-> 0,
     iTestTrafficMemory |-> 0, iDeviceAddr |-> 0, portSetup |-> ZeroPorts]

ZeroProject ==
    [cProjectName |-> ZeroBuf, cProjectVersion |-> ZeroBuf, mvbc_device_count |-> 0,
     mvbc |-> [i \in 0..(MAX_MVBC_DEVICES - 1) |-> ZeroDevCfg]]

\* What the caller's struct sProject may hold when the loader is called: the
\* zero-initialised global, or what an earlier load left in it (here every
\* byte and every int set, every count at its capacity).
DirtyBuf == [k \in 1..MAX_STRING_LENGTH |-> 122]

DirtyPort ==
    [cPortName |-> DirtyBuf,
     portCfg |-> [iPortAddr |-> 7, iPortType |-> 2, iPortDirection |-> 1,
                  iFunctionCode |-> 7, iPollIntervalMS |-> 512, iIrqNumber |-> 7,
                  iNumData |-> 1]]

DirtyDevCfg ==
    [cDescription |-> DirtyBuf, cDevPath |-> DirtyBuf, iInterface |-> 2, iMode |-> 2,
     iTestTrafficMemory |-> 1, iDeviceAddr |-> 7,
     portSetup |->
        [mvbc_port_count |-> MAX_PORT_COUNT,
         defaultPortCfg |->
            [wPortType |-> 2, wPollInterval |-> 512, iIrqNumber |-> 7, iNumData |-> 1],
         port |-> [j \in 0..(MAX_PORT_COUNT - 1) |-> DirtyPort]]]

DirtyProject ==
    [cProjectName |-> DirtyBuf, cProjectVersion |-> DirtyBuf,
     mvbc_device_count |-> MAX_MVBC_DEVICES,
     mvbc |-> [i \in 0..(MAX_MVBC_DEVICES - 1) |-> DirtyDevCfg]]

\* the loader started without clearing the caller's structure
memset_Skipped(pProject) == pProject

\* memset(pProject, 0, sizeof(struct sProject))
memset(pProject) == ZeroProject

(***************************************************************************)
(* parse_port_config, static list: one operator per field of a port, in    *)
(* the order of the code.  Each takes the JSON port object and the port    *)
(* slot and gives [ok, p]: ok = FALSE is the code's                        *)
(* rc = ERROR_CONFIG_FILE_PARAMETER; break.                                *)
(***************************************************************************)
\* OPTIONAL config.static.name (string)
PortNameField(port, p) ==
    IF HasValueOfType(port.name, JSONString)
    THEN LET strResult == DotGetString(port.name)
         IN  IF strResult # NULL
             THEN [ok |-> TRUE,
                   p |-> [p EXCEPT !.cPortName = Strncpy(strResult, MAX_STRING_LENGTH)]]
             ELSE [ok |-> FALSE, p |-> p]
    ELSE [ok |-> TRUE,
          p |-> [p EXCEPT !.cPortName =
                     Strncpy(MVBC_JSON_CONF_DEFAULT_PORT_NAME, MAX_STRING_LENGTH)]]

\* MANDATORY config.static.addr (number)
PortAddrField(port, p) ==
    IF HasValueOfType(port.addr, JSONNumber)
    THEN LET iLocalValue == validatePortAddr(ToInt(GetNumber(port.addr)))
         IN  IF iLocalValue # -1
             THEN [ok |-> TRUE, p |-> [p EXCEPT !.portCfg.iPortAddr = iLocalValue]]
             ELSE [ok |-> FALSE, p |-> p]
    ELSE [ok |-> FALSE, p |-> p]

\* OPTIONAL config.static.type (string)
PortTypeField(port, p) ==
    IF HasValueOfType(port.type, JSONString)
    THEN LET iLocalValue == validatePortType(DotGetString(port.type))
         IN  IF iLocalValue # -1
             THEN [ok |-> TRUE, p |-> [p EXCEPT !.portCfg.iPortType = iLocalValue]]
             ELSE [ok |-> FALSE, p |-> p]
    ELSE [ok |-> TRUE,
          p |-> [p EXCEPT !.portCfg.iPortType = MVBC_JSON_CONF_DEFAULT_PORT_TYPE]]

\* OPTIONAL config.static.direction (string)
PortDirectionField(port, p) ==
    IF HasValueOfType(port.direction, JSONString)
    THEN LET iLocalValue == validatePortDirection(DotGetString(port.direction))
         IN  IF iLocalValue # -1
             THEN [ok |-> TRUE, p |-> [p EXCEPT !.portCfg.iPortDirection = iLocalValue]]
             ELSE [ok |-> FALSE, p |-> p]
    ELSE [ok |-> TRUE,
          p |-> [p EXCEPT !.portCfg.iPortDirection = MVBC_JSON_CONF_DEFAULT_PORT_DIRECTION]]

\* MANDATORY config.static.fcode (number)
PortFcodeField(port, p) ==
    IF HasValueOfType(port.fcode, JSONNumber)
    THEN LET iLocalValue == validateFunctionalCode(ToInt(GetNumber(port.fcode)))
         IN  IF iLocalValue # -1
             THEN [ok |-> TRUE, p |-> [p EXCEPT !.portCfg.iFunctionCode = iLocalValue]]
             ELSE [ok |-> FALSE, p |-> p]
    ELSE [ok |-> FALSE, p |-> p]

\* PortPollField with nothing stored for a poll_ms that is absent or no number
PortPollField_NoDefault(port, p) ==
    IF HasValueOfType(port.poll_ms, JSONNumber)
    THEN [ok |-> TRUE,
          p |-> [p EXCEPT !.portCfg.iPollIntervalMS =
                     validatePollingTimeout(ToInt(GetNumber(port.poll_ms)))]]
    ELSE [ok |-> TRUE, p |-> p]

\* OPTIONAL config.static.poll_ms (number)
PortPollField(port, p) ==
    IF HasValueOfType(port.poll_ms, JSONNumber)
    THEN LET iLocalValue == validatePollingTimeout(ToInt(GetNumber(port.poll_ms)))
         IN  IF iLocalValue # -1
             THEN [ok |-> TRUE, p |-> [p EXCEPT !.portCfg.iPollIntervalMS = iLocalValue]]
             ELSE [ok |-> FALSE, p |-> p]
    ELSE [ok |-> TRUE,
          p |-> [p EXCEPT !.portCfg.iPollIntervalMS = MVBC_JSON_CONF_DEFAULT_PORT_POLL_MS]]

\* PortIrqField with a rejected irq replaced by the default instead of
\* ending the port list with an error
PortIrqField_Defaulting(port, p) ==
    IF HasValueOfType(port.irq, JSONNumber)
       /\ validateInterruptNumber(ToInt(GetNumber(port.irq))) # -1
    THEN [ok |-> TRUE,
          p |-> [p EXCEPT !.portCfg.iIrqNumber =
                     validateInterruptNumber(ToInt(GetNumber(port.irq)))]]
    ELSE [ok |-> TRUE,
          p |-> [p EXCEPT !.portCfg.iIrqNumber = MVBC_JSON_CONF_DEFAULT_PORT_IRQ]]

\* OPTIONAL config.static.irq (number)
PortIrqField(port, p) ==
    IF HasValueOfType(port.irq, JSONNumber)
    THEN LET iLocalValue == validateInterruptNumber(ToInt(GetNumber(port.irq)))
         IN  IF iLocalValue # -1
             THEN [ok |-> TRUE, p |-> [p EXCEPT !.portCfg.iIrqNumber = iLocalValue]]
             ELSE [ok |-> FALSE, p |-> p]
    ELSE [ok |-> TRUE,
          p |-> [p EXCEPT !.portCfg.iIrqNumber = MVBC_JSON_CONF_DEFAULT_PORT_IRQ]]

\* OPTIONAL config.static.num_data (number)
PortNumDataField(port, p) ==
    IF HasValueOfType(port.num_data, JSONNumber)
    THEN LET iLocalValue == validateNumericalData(ToInt(GetNumber(port.num_data)))
         IN  IF iLocalValue # -1
             THEN [ok |-> TRUE, p |-> [p EXCEPT !.portCfg.iNumData = iLocalValue]]
             ELSE [ok |-> FALSE, p |-> p]
    ELSE [ok |-> TRUE,
          p |-> [p EXCEPT !.portCfg.iNumData = MVBC_JSON_CONF_DEFAULT_PORT_NUM_DATA]]

\* The body of the for loop over the static list for one port: the fields in
\* order, stopping at the first failure (what was written stays written).
PortStep(s, port, Field(_, _)) == IF s.ok THEN Field(port, s.p) ELSE s

ParseStaticPort(port, p) ==
    PortStep(
      PortStep(
        PortStep(
          PortStep(
            PortStep(
              PortStep(
                PortStep(PortNameField(port, p),
                         port, PortAddrField),
                port, PortTypeField),
              port, PortDirectionField),
            port, PortFcodeField),
          port, PortPollField),
        port, PortIrqField),
      port, PortNumDataField)

\* for (i = 0; i < count; i++) over config.static, from index i on.  st is
\* [rc, ps, oob]: the result code, the sMvbcPorts being filled, and the
\* writes to a slot port[i] with i >= MAX_PORT_COUNT, behind the end of the
\* array port[MAX_PORT_COUNT], as pairs <<i, port written>>.
RECURSIVE StaticLoop(_, _, _)
StaticLoop(staticList, i, st) ==
    IF i >= Len(staticList) THEN st
    ELSE LET inside == i < MAX_PORT_COUNT
             r == ParseStaticPort(staticList[i + 1],
                                  IF inside THEN st.ps.port[i] ELSE ZeroPort)
             st2 == [rc |-> IF r.ok THEN st.rc ELSE ERROR_CONFIG_FILE_PARAMETER,
                     ps |-> IF inside THEN [st.ps EXCEPT !.port[i] = r.p] ELSE st.ps,
                     oob |-> IF inside THEN st.oob ELSE st.oob \cup {<<i, r.p>>}]
         IN  IF r.ok THEN StaticLoop(staticList, i + 1, st2) ELSE st2

(***************************************************************************)
(* parse_port_config, default-port section: one operator per field.  st is *)
(* [rc, ps, oob]; a failing validator sets rc and writes nothing, and the  *)
(* next field is parsed all the same.                                      *)
(***************************************************************************)
\* DefaultTypeField with a value of the wrong primitive type reported as an
\* error instead of replaced by the default
DefaultTypeField_WrongTypeFails(dflt, st) ==
    IF HasValueOfType(dflt.type, JSONString)
       /\ validatePortType(DotGetString(dflt.type)) # -1
    THEN [st EXCEPT !.ps.defaultPortCfg.wPortType =
              validatePortType(DotGetString(dflt.type))]
    ELSE IF HasValueOfType(dflt.type, JSONAbsent)
    THEN [st EXCEPT !.ps.defaultPortCfg.wPortType = MVBC_JSON_CONF_DEFAULT_PORT_TYPE]
    ELSE [st EXCEPT !.rc = ERROR_CONFIG_FILE_PARAMETER]

\* OPTIONAL config.default.type (string)
DefaultTypeField(dflt, st) ==
    IF HasValueOfType(dflt.type, JSONString)
    THEN LET iLocalValue == validatePortType(DotGetString(dflt.type))
         IN  IF iLocalValue # -1
             THEN [st EXCEPT !.ps.defaultPortCfg.wPortType = iLocalValue]
             ELSE [st EXCEPT !.rc = ERROR_CONFIG_FILE_PARAMETER]
    ELSE [st EXCEPT !.ps.defaultPortCfg.wPortType = MVBC_JSON_CONF_DEFAULT_PORT_TYPE]

\* OPTIONAL config.default.poll_ms (number)
DefaultPollField(dflt, st) ==
    IF HasValueOfType(dflt.poll_ms, JSONNumber)
    THEN LET iLocalValue == validatePollingTimeout(ToInt(GetNumber(dflt.poll_ms)))
         IN  IF iLocalValue # -1
             THEN [st EXCEPT !.ps.defaultPortCfg.wPollInterval = iLocalValue]
             ELSE [st EXCEPT !.rc = ERROR_CONFIG_FILE_PARAMETER]
    ELSE [st EXCEPT !.ps.defaultPortCfg.wPollInterval = MVBC_JSON_CONF_DEFAULT_PORT_POLL_MS]

\* OPTIONAL config.default.irq (number)
DefaultIrqField(dflt, st) ==
    IF HasValueOfType(dflt.irq, JSONNumber)
    THEN LET iLocalValue == validateInterruptNumber(ToInt(GetNumber(dflt.irq)))
         IN  IF iLocalValue # -1
             THEN [st EXCEPT !.ps.defaultPortCfg.iIrqNumber = iLocalValue]
             ELSE [st EXCEPT !.rc = ERROR_CONFIG_FILE_PARAMETER]
    ELSE [st EXCEPT !.ps.defaultPortCfg.iIrqNumber = MVBC_JSON_CONF_DEFAULT_PORT_IRQ]

\* OPTIONAL config.default.num_data (number)
DefaultNumDataField(dflt, st) ==
    IF HasValueOfType(dflt.num_data, JSONNumber)
    THEN LET iLocalValue == validateNumericalData(ToInt(GetNumber(dflt.num_data)))
         IN  IF iLocalValue # -1
             THEN [st EXCEPT !.ps.defaultPortCfg.iNumData = iLocalValue]
             ELSE [st EXCEPT !.rc = ERROR_CONFIG_FILE_PARAMETER]
    ELSE [st EXCEPT !.ps.defaultPortCfg.iNumData = MVBC_JSON_CONF_DEFAULT_PORT_NUM_DATA]

\* if ((mode == eStatic) || (mode == eCombined)) { ... }: the count is stored
\* before any port is parsed; a missing or non-array config.static counts 0.
StaticSection(structObject, st, mode) ==
    IF (mode = eStatic) \/ (mode = eCombined)
    THEN LET staticList == IF structObject.static.type = JSONArray
                           THEN structObject.static.arr ELSE << >>
             count == ArrayCount(structObject.static)
         IN  StaticLoop(staticList, 0, [st EXCEPT !.ps.mvbc_port_count = count])
    ELSE st

\* DynamicSection with the default-port section parsed in every mode
DynamicSection_AnyMode(structObject, st, mode) ==
    DefaultNumDataField(structObject.dflt,
      DefaultIrqField(structObject.dflt,
        DefaultPollField(structObject.dflt,
          DefaultTypeField(structObject.dflt, st))))

\* if ((mode == eDynamic) || (mode == eCombined)) { ... }
DynamicSection(structObject, st, mode) ==
    IF (mode = eDynamic) \/ (mode = eCombined)
    THEN DefaultNumDataField(structObject.dflt,
           DefaultIrqField(structObject.dflt,
             DefaultPollField(structObject.dflt,
               DefaultTypeField(structObject.dflt, st))))
    ELSE st

\* parse_port_config(structObject, portSetup, mode): [rc, ps, oob]
parse_port_config(structObject, portSetup, mode) ==
    DynamicSection(structObject,
                   StaticSection(structObject,
                                 [rc |-> NO_ERROR, ps |-> portSetup, oob |-> {}],
                                 mode),
                   mode)

(***************************************************************************)
(* mvbc_parse_project_configuration, body of the device loop: one operator *)
(* per field of project.devices[i], in the order of the code.  Each gives  *)
(* [ok, d]; ok = FALSE is rc = ERROR_CONFIG_FILE_PARAMETER; break.         *)
(***************************************************************************)
\* MANDATORY project.devices[i].path (string)
DevPathField(structObject, d) ==
    LET strResult == DotGetString(structObject.path)
    IN  IF strResult # NULL
        THEN [ok |-> TRUE, d |-> [d EXCEPT !.cDevPath = Strncpy(strResult, MAX_STRING_LENGTH)]]
        ELSE [ok |-> FALSE, d |-> d]

\* OPTIONAL project.devices[i].description (string)
DevDescriptionField(structObject, d) ==
    LET strResult == DotGetString(structObject.description)
    IN  IF strResult # NULL
        THEN [ok |-> TRUE,
              d |-> [d EXCEPT !.cDescription = Strncpy(strResult, MAX_STRING_LENGTH)]]
        ELSE [ok |-> TRUE,
              d |-> [d EXCEPT !.cDescription =
                         Strncpy(MVBC_JSON_CONF_DEFAULT_DEVICE_DESCRIPTION, MAX_STRING_LENGTH)]]

\* MANDATORY project.devices[i].interface (string)
DevInterfaceField(structObject, d) ==
    IF HasValueOfType(structObject.interface, JSONString)
    THEN LET iLocalValue == validateInterface(DotGetString(structObject.interface))
         IN  IF iLocalValue # -1
             THEN [ok |-> TRUE, d |-> [d EXCEPT !.iInterface = iLocalValue]]
             ELSE [ok |-> FALSE, d |-> d]
    ELSE [ok |-> FALSE, d |-> d]

\* MANDATORY project.devices[i].device_addr (number)
DevAddrField(structObject, d) ==
    IF HasValueOfType(structObject.device_addr, JSONNumber)
    THEN LET iLocalValue == validateDeviceAddr(ToInt(GetNumber(structObject.device_addr)))
         IN  IF iLocalValue # -1
             THEN [ok |-> TRUE, d |-> [d EXCEPT !.iDeviceAddr = iLocalValue]]
             ELSE [ok |-> FALSE, d |-> d]
    ELSE [ok |-> FALSE, d |-> d]

\* MANDATORY project.devices[i].mode (string)
DevModeField(structObject, d) ==
    IF HasValueOfType(structObject.mode, JSONString)
    THEN LET iLocalValue == validateMode(DotGetString(structObject.mode))
         IN  IF iLocalValue # -1
             THEN [ok |-> TRUE, d |-> [d EXCEPT !.iMode = iLocalValue]]
             ELSE [ok |-> FALSE, d |-> d]
    ELSE [ok |-> FALSE, d |-> d]

\* OPTIONAL project.devices[i].traffic_memory (number)
DevTrafficMemoryField(structObject, d) ==
    IF HasValueOfType(structObject.traffic_memory, JSONNumber)
    THEN [ok |-> TRUE,
          d |-> [d EXCEPT !.iTestTrafficMemory = ToInt(GetNumber(structObject.traffic_memory))]]
    ELSE [ok |-> TRUE,
          d |-> [d EXCEPT !.iTestTrafficMemory = MVBC_JSON_CONF_DEFAULT_DEVICE_MEMORY_TEST]]

\* The device-level fields of one loop iteration, stopping at the first
\* failure.
DevStep(s, structObject, Field(_, _)) == IF s.ok THEN Field(structObject, s.d) ELSE s

ParseDeviceFields(structObject, d) ==
    DevStep(
      DevStep(
        DevStep(
          DevStep(
            DevStep(DevPathField(structObject, d),
                    structObject, DevDescriptionField),
            structObject, DevInterfaceField),
          structObject, DevAddrField),
        structObject, DevModeField),
      structObject, DevTrafficMemoryField)

\* One iteration of for (i = 0; i < count; i++): [brk, rc, d, oob].  brk is
\* the break of a failed device-level field; otherwise rc is assigned the
\* result of parse_port_config and the loop goes on.
ParseDeviceBody(structObject, d) ==
    LET f == ParseDeviceFields(structObject, d)
        r == parse_port_config(structObject, f.d.portSetup, f.d.iMode)
    IN  IF ~f.ok
        THEN [brk |-> TRUE, rc |-> ERROR_CONFIG_FILE_PARAMETER, d |-> f.d, oob |-> {}]
        ELSE [brk |-> FALSE, rc |-> r.rc, d |-> [f.d EXCEPT !.portSetup = r.ps],
              oob |-> r.oob]

\* OPTIONAL project.name / project.version (string)
ProjectStringField(v, default) ==
    LET strResult == DotGetString(v)
    IN  IF strResult # NULL
        THEN Strncpy(strResult, MAX_STRING_LENGTH)
        ELSE Strncpy(default, MAX_STRING_LENGTH)

(***************************************************************************)
(* mvbc_set_port_configuration: the packed control word of one port.       *)
(***************************************************************************)
\* PackW0 with the interrupt number shifted to bit 4 instead of bit 5
PackW0_IrqAtBit4(cfg) ==
    LET w1 == BitOr(0, Shl(cfg.iFunctionCode, 12))
        w2 == BitOr(w1, Shl(1, 10 + cfg.iPortDirection))
        w3 == BitOr(w2, Shl(cfg.iNumData, 1))
    IN  IF cfg.iIrqNumber = 0 THEN w3 ELSE BitOr(w3, Shl(cfg.iIrqNumber, 4))

PackW0(cfg) ==
    LET w1 == BitOr(0, Shl(cfg.iFunctionCode, 12))
        w2 == BitOr(w1, Shl(1, 10 + cfg.iPortDirection))
        w3 == BitOr(w2, Shl(cfg.iNumData, 1))
    IN  IF cfg.iIrqNumber = 0 THEN w3 ELSE BitOr(w3, Shl(cfg.iIrqNumber, 5))

\* PortConfigArg with the poll interval transmitted whatever the interrupt
\* number is
PortConfigArg_PollAlways(cfg) ==
    [bStaticConf |-> 1,
     wPortAddr |-> cfg.iPortAddr,
     wFuncCode |-> cfg.iFunctionCode,
     wPortType |-> cfg.iPortType,
     wPCS_W0 |-> PackW0(cfg),
     wPollInterval |-> cfg.iPollIntervalMS]

\* struct sMvbcPortConfig as filled for port cfg (after its memset)
PortConfigArg(cfg) ==
    [bStaticConf |-> 1,
     wPortAddr |-> cfg.iPortAddr,
     wFuncCode |-> cfg.iFunctionCode,
     wPortType |-> cfg.iPortType,
     wPCS_W0 |-> PackW0(cfg),
     wPollInterval |-> IF cfg.iIrqNumber = 0 THEN cfg.iPollIntervalMS ELSE 0]

\* commands with no port argument
NoArg ==
    [bStaticConf |-> 0, wPortAddr |-> 0, wFuncCode |-> 0, wPortType |-> 0,
     wPCS_W0 |-> 0, wPollInterval |-> 0]

(***************************************************************************)
(* send_cmd: the driver is reached only for a path that starts with        *)
(* "/dev"; open() and ioctl() may each fail (-1) or succeed (0).           *)
(***************************************************************************)
DriverResults == {0, -1}

SendCmdResults(dev) == IF HasDevPrefix(dev) THEN DriverResults ELSE {-1}

\* the log entries send_cmd adds for device i: none when the driver is not reached
SendCmdLog(dev, i, cmd, arg, r) ==
    IF HasDevPrefix(dev) THEN <<[dev |-> i, cmd |-> cmd, arg |-> arg, rc |-> r]>> ELSE << >>

(***************************************************************************)
(* The documents the loader is run on.  A port, a device and a document    *)
(* are records of JSON values, one per key the loader looks up; an array   *)
(* element that is no object is the record with every key absent.          *)
(***************************************************************************)
StrA(n) == [k \in 1..n |-> 97]
\* "/dev" followed by n - 4 digits 0
PathOfLen(n) == STR_DEV \o [k \in 1..(n - 4) |-> 48]

StringLengths == {0, 1, MAX_STRING_LENGTH - 1, MAX_STRING_LENGTH, MAX_STRING_LENGTH + 1}
CopiedStrings == {JNull, JNum(5)} \cup {JStr(StrA(n)) : n \in StringLengths}

BasePort ==
    [name |-> JNull, addr |-> JNum(1), type |-> JNull, direction |-> JNull,
     fcode |-> JNum(0), poll_ms |-> JNull, irq |-> JNull, num_data |-> JNull]

EmptyPort ==
    [name |-> JNull, addr |-> JNull, type |-> JNull, direction |-> JNull,
     fcode |-> JNull, poll_ms |-> JNull, irq |-> JNull, num_data |-> JNull]

PortAddrValues == {JNull, JStr(STR_la), JNum(0), JNum(4095), JNum(4096), JTenths(5), JTenths(40959)}
PortTypeValues == {JNum(1), JStr(STR_la), JStr(STR_da), JStr(STR_pp), JStr(STR_xx)}
PortDirectionValues == {JNum(1), JStr(STR_sink), JStr(STR_source), JStr(STR_up)}
PortFcodeValues == {JNull, JStr(STR_la), JNum(-1), JNum(15), JNum(16)}
PortPollValues == {JStr(STR_la), JNum(-5), JNum(0), JNum(1), JNum(16), JNum(64), JNum(100), JNum(1024)}
PortIrqValues == {JStr(STR_la), JNum(-1), JNum(0), JNum(3), JNum(7), JNum(8)}
PortNumDataValues == {JStr(STR_la), JNum(0), JNum(1), JNum(2)}

\* the base port with one key changed, and a port with irq and poll_ms both set
PortVariants ==
    {BasePort, EmptyPort,
     [BasePort EXCEPT !.irq = JNum(3), !.poll_ms = JNum(64)]}
    \cup {[BasePort EXCEPT !.name = v] : v \in CopiedStrings}
    \cup {[BasePort EXCEPT !.addr = v] : v \in PortAddrValues}
    \cup {[BasePort EXCEPT !.type = v] : v \in PortTypeValues}
    \cup {[BasePort EXCEPT !.direction = v] : v \in PortDirectionValues}
    \cup {[BasePort EXCEPT !.fcode = v] : v \in PortFcodeValues}
    \cup {[BasePort EXCEPT !.poll_ms = v] : v \in PortPollValues}
    \cup {[BasePort EXCEPT !.irq = v] : v \in PortIrqValues}
    \cup {[BasePort EXCEPT !.num_data = v] : v \in PortNumDataValues}

\* static lists of 0 .. MAX_PORT_COUNT + 1 ports, base ports but one
PortLists ==
    {<< >>} \cup
    UNION {{[k \in 1..n |-> IF k = pos THEN v ELSE BasePort] :
                pos \in 1..n, v \in PortVariants} : n \in 1..(MAX_PORT_COUNT + 1)}

NoDefault == [type |-> JNull, poll_ms |-> JNull, irq |-> JNull, num_data |-> JNull]

DefaultSections ==
    {NoDefault}
    \cup {[NoDefault EXCEPT !.type = v] : v \in PortTypeValues}
    \cup {[NoDefault EXCEPT !.poll_ms = v] : v \in PortPollValues}
    \cup {[NoDefault EXCEPT !.irq = v] : v \in PortIrqValues}
    \cup {[NoDefault EXCEPT !.num_data = v] : v \in PortNumDataValues}
    \cup {[NoDefault EXCEPT !.type = JNum(1), !.irq = JNum(8)]}

BaseDevice(mode) ==
    [path |-> JStr(PathOfLen(5)), description |-> JNull, interface |-> JStr(STR_EMD),
     device_addr |-> JNum(1), mode |-> JStr(mode), traffic_memory |-> JNull,
     static |-> JArr(<<BasePort>>), dflt |-> NoDefault]

\* an element of project.devices that is no object
NonObjectDevice ==
    [path |-> JNull, description |-> JNull, interface |-> JNull, device_addr |-> JNull,
     mode |-> JNull, traffic_memory |-> JNull, static |-> JNull, dflt |-> NoDefault]

Modes == {STR_static, STR_dynamic, STR_combined}

DevPathValues ==
    {JNull, JNum(1), JStr(StrA(1))}
    \cup {JStr(PathOfLen(n)) : n \in {MAX_STRING_LENGTH - 1, MAX_STRING_LENGTH, MAX_STRING_LENGTH + 1}}
DevInterfaceValues == {JNull, JNum(1), JStr(STR_ESD), JStr(STR_OGF)}
DevAddrValues == {JNull, JStr(STR_la), JNum(0), JNum(4095), JNum(4096)}
DevModeValues == {JNull, JNum(1), JStr(STR_auto)}
DevTrafficMemoryValues == {JStr(STR_la), JNum(0), JNum(1)}

\* the base static device with one device-level key changed
HeaderDevices ==
    {NonObjectDevice}
    \cup {[BaseDevice(STR_static) EXCEPT !.path = v] : v \in DevPathValues}
    \cup {[BaseDevice(STR_static) EXCEPT !.description = v] : v \in CopiedStrings}
    \cup {[BaseDevice(STR_static) EXCEPT !.interface = v] : v \in DevInterfaceValues}
    \cup {[BaseDevice(STR_static) EXCEPT !.device_addr = v] : v \in DevAddrValues}
    \cup {[BaseDevice(STR_static) EXCEPT !.mode = v] : v \in DevModeValues}
    \cup {[BaseDevice(STR_static) EXCEPT !.traffic_memory = v] : v \in DevTrafficMemoryValues}

\* every mode with every static list, and with config.static missing or no array
PortDevices ==
    {[BaseDevice(m) EXCEPT !.static = v] :
        m \in Modes, v \in {JNull, JNum(1)} \cup {JArr(l) : l \in PortLists}}

\* every mode with every default-port section
DefaultDevices ==
    {[BaseDevice(m) EXCEPT !.dflt = v] : m \in Modes, v \in DefaultSections}

\* a port with every key set to a legal value
FullPort ==
    [name |-> JStr(StrA(1)), addr |-> JNum(4095), type |-> JStr(STR_pp),
     direction |-> JStr(STR_source), fcode |-> JNum(15), poll_ms |-> JNum(64),
     irq |-> JNum(3), num_data |-> JNum(1)]

\* static lists of 0 .. MAX_PORT_COUNT + 1 legal ports
LegalPortLists ==
    UNION {{[k \in 1..n |-> IF k = pos THEN FullPort ELSE BasePort] : pos \in 0..n} :
              n \in 0..(MAX_PORT_COUNT + 1)}

\* combined mode: every legal static list with every default-port section
CombinedDevices ==
    {[BaseDevice(STR_combined) EXCEPT !.static = JArr(l), !.dflt = v] :
        l \in LegalPortLists, v \in DefaultSections}

\* static mode: a list with a rejected port and a full list, with every
\* default-port section
StaticDefaultDevices ==
    {[BaseDevice(STR_static) EXCEPT !.static = JArr(l), !.dflt = v] :
        l \in {<<[BasePort EXCEPT !.irq = JNum(8)]>>, <<FullPort, BasePort>>},
        v \in DefaultSections}

\* the devices of the documents with several devices
FewDevices ==
    {BaseDevice(STR_static),
     BaseDevice(STR_combined),
     [BaseDevice(STR_static) EXCEPT !.static = JArr(<<[BasePort EXCEPT !.addr = JNum(0)]>>)],
     [BaseDevice(STR_static) EXCEPT !.interface = JNull],
     [BaseDevice(STR_static) EXCEPT !.path = JStr(StrA(1))],
     [BaseDevice(STR_dynamic) EXCEPT !.dflt = [NoDefault EXCEPT !.irq = JNum(8)]]}

\* root: JSONObject, JSONArray (a document that is no object) or JSONAbsent
\* (json_parse_file gave NULL)
BaseDocument ==
    [root |-> JSONObject, name |-> JNull, version |-> JNull,
     devices |-> JArr(<<BaseDevice(STR_static)>>)]

ProjectDocuments ==
    {[BaseDocument EXCEPT !.root = r] : r \in {JSONArray, JSONAbsent}}
    \cup {[BaseDocument EXCEPT !.name = v] : v \in CopiedStrings}
    \cup {[BaseDocument EXCEPT !.version = v] : v \in CopiedStrings}
    \cup {[BaseDocument EXCEPT !.devices = v] : v \in {JNull, JNum(1)}}
    \cup {[BaseDocument EXCEPT !.devices =
              JArr([k \in 1..(MAX_MVBC_DEVICES + 1) |-> BaseDevice(STR_static)])]}

SingleDeviceDocuments ==
    {[BaseDocument EXCEPT !.devices = JArr(<<d>>)] :
        d \in HeaderDevices \cup PortDevices \cup DefaultDevices \cup CombinedDevices
              \cup StaticDefaultDevices}

SeveralDeviceDocuments ==
    UNION {{[BaseDocument EXCEPT !.devices = JArr(ds)] : ds \in [1..n -> FewDevices]} :
              n \in 0..MAX_MVBC_DEVICES}

\* one static device with one port that has every value of the fields the
\* packed control word is built from
PackedPorts ==
    {[BasePort EXCEPT !.direction = JStr(d), !.fcode = JNum(f), !.irq = JNum(q),
                      !.num_data = JNum(n), !.poll_ms = v] :
        d \in {STR_sink, STR_source}, f \in 0..15, q \in 0..7, n \in 0..1,
        v \in {JNull, JNum(1024)}}

PackedDocuments ==
    {[BaseDocument EXCEPT
        !.devices = JArr(<<[BaseDevice(STR_static) EXCEPT !.static = JArr(<<p>>)]>>)] :
        p \in PackedPorts}

Documents ==
    ProjectDocuments \cup SingleDeviceDocuments \cup SeveralDeviceDocuments
    \cup PackedDocuments

(***************************************************************************)
(* The state of one run of mvbc_init(config_file).                         *)
(*   doc       the document behind config_file                            *)
(*   pc        where the run stands                                        *)
(*   gProject  the global struct sProject                                  *)
(*   tree      rootValue: "none" before json_parse_file, "held" (or "null" *)
(*             when the file did not parse), "freed" after json_value_free *)
(*   prc, pi   rc and i of mvbc_parse_project_configuration                *)
(*   devRc     per loop iteration of the loader, in order: the device      *)
(*             index, the rc it left and whether it left by break          *)
(*   spill     the writes behind the end of an array port[]: <<device,     *)
(*             index, port written>>                                       *)
(*   rc, i     rc and i of mvbc_init                                       *)
(*   cmds      the commands that reached the driver, in order              *)
(*   ret       the value mvbc_init returned (meaningful at pc = "done")    *)
(*   varg,     the argument and the results of one call of each of the     *)
(*   vres      integer validators (used by SpecValidators only)            *)
(*   prior     what gProject held when the loader was called               *)
(***************************************************************************)
\* a project.devices array that holds more than MAX_MVBC_DEVICES entries or,
\* off by one, MAX_MVBC_DEVICES
TooManyDevices_OffByOne(count) == count >= MAX_MVBC_DEVICES

\* if (count > MAX_MVBC_DEVICES)
TooManyDevices(count) == count > MAX_MVBC_DEVICES

\* What the bytes of a character buffer may be after a write behind the end
\* of the array before it has run over them.
HavocBufs == {ZeroBuf, [k \in 1..MAX_STRING_LENGTH |-> 1]}

\* The project after the writes oob of device d behind the end of its port[]:
\* port[] is the last member of mvbc[d], so port[MAX_PORT_COUNT] lies on the
\* first members of mvbc[d + 1]: its cPortName on cDescription, its portCfg
\* on the bytes of cDevPath.  Behind the last device the memory is not part
\* of the project.
Overflown(proj, d, oob) ==
    IF oob = {} \/ d + 1 >= MAX_MVBC_DEVICES
    THEN {proj}
    ELSE {[proj EXCEPT !.mvbc[d + 1].cDescription = w[2].cPortName,
                       !.mvbc[d + 1].cDevPath = buf] :
              w \in {x \in oob : x[1] = MAX_PORT_COUNT}, buf \in HavocBufs}

(***************************************************************************)
(* The loader as a function of the document: the outcomes [proj, rc] of    *)
(* mvbc_parse_project_configuration on a zeroed structure.  There is one   *)
(* outcome unless a static list runs over the end of port[].               *)
(***************************************************************************)
\* the device loop from device k on, on the project proj
RECURSIVE LoadDevices(_, _, _)
LoadDevices(document, proj, k) ==
    LET b == ParseDeviceBody(document.devices.arr[k + 1], proj.mvbc[k])
        written == Overflown([proj EXCEPT !.mvbc[k] = b.d], k, b.oob)
    IN  IF b.brk \/ ~(k + 1 < proj.mvbc_device_count)
        THEN {[proj |-> q, rc |-> b.rc] : q \in written}
        ELSE UNION {LoadDevices(document, q, k + 1) : q \in written}

Load(document) ==
    IF document.root # JSONObject
    THEN {[proj |-> ZeroProject, rc |-> ERROR_CONFIG_FILE_READ]}
    ELSE LET named == [ZeroProject EXCEPT
                         !.cProjectName =
                             ProjectStringField(document.name,
                                                MVBC_JSON_CONF_DEFAULT_PROJECT_NAME),
                         !.cProjectVersion =
                             ProjectStringField(document.version,
                                                MVBC_JSON_CONF_DEFAULT_PROJECT_VERSION)]
             count == ArrayCount(document.devices)
         IN  IF document.devices.type # JSONArray
             THEN {[proj |-> named, rc |-> ERROR_CONFIG_FILE_PARAMETER]}
             ELSE IF TooManyDevices(count)
             THEN {[proj |-> named, rc |-> ERROR_CONFIG_INVALID_PARAMETER]}
             ELSE IF count = 0
             THEN {[proj |-> named, rc |-> 0]}
             ELSE LoadDevices(document, [named EXCEPT !.mvbc_device_count = count], 0)

\* a document loaded earlier into the same structure: MAX_MVBC_DEVICES
\* combined devices with full port lists
EarlierDocument ==
    [root |-> JSONObject, name |-> JStr(StrA(2)), version |-> JStr(StrA(1)),
     devices |->
        JArr([k \in 1..MAX_MVBC_DEVICES |->
                [BaseDevice(STR_combined) EXCEPT
                    !.description = JStr(StrA(3)),
                    !.traffic_memory = JNum(1),
                    !.static = JArr([q \in 1..MAX_PORT_COUNT |-> FullPort]),
                    !.dflt = [type |-> JStr(STR_pp), poll_ms |-> JNum(512),
                              irq |-> JNum(7), num_data |-> JNum(1)]]])]

\* What the caller's structure may hold when the loader is called: the
\* zero-initialised global, what the load of an earlier document left, or
\* any other contents.
PriorProjects ==
    {ZeroProject, DirtyProject} \cup {o.proj : o \in Load(EarlierDocument)}

\* the results of the integer validators before any call
NoResults ==
    [deviceAddr |-> 0, portAddr |-> 0, fcode |-> 0, poll |-> 0, irq |-> 0,
     numData |-> 0, stored |-> 0, dfltStored |-> 0]

VARIABLES doc, pc, gProject, tree, prc, pi, devRc, spill, rc, i, cmds, ret, varg, vres, prior

vars == <<doc, pc, gProject, tree, prc, pi, devRc, spill, rc, i, cmds, ret, varg, vres, prior>>

Init ==
    /\ doc \in Documents
    /\ pc = "parse"
    /\ gProject \in PriorProjects
    /\ tree = "none"
    /\ prc = 0
    /\ pi = 0
    /\ devRc = << >>
    /\ spill = {}
    /\ rc = 0
    /\ i = 0
    /\ cmds = << >>
    /\ ret = 0
    /\ varg = 0
    /\ vres = NoResults
    /\ prior = gProject

\* mvbc_parse_project_configuration up to the device loop: memset, parse of
\* the file, project.name, project.version, project.devices and its count.
ParseBegin ==
    /\ pc = "parse"
    /\ tree' = IF doc.root = JSONAbsent THEN "null" ELSE "held"
    /\ pi' = 0
    /\ IF doc.root # JSONObject
       THEN /\ gProject' = memset(gProject)
            /\ prc' = ERROR_CONFIG_FILE_READ
            /\ pc' = "cleanup"
       ELSE LET named == [memset(gProject) EXCEPT
                            !.cProjectName =
                                ProjectStringField(doc.name, MVBC_JSON_CONF_DEFAULT_PROJECT_NAME),
                            !.cProjectVersion =
                                ProjectStringField(doc.version, MVBC_JSON_CONF_DEFAULT_PROJECT_VERSION)]
                count == ArrayCount(doc.devices)
            IN  IF doc.devices.type = JSONArray
                THEN IF TooManyDevices(count)
                     THEN /\ gProject' = named
                          /\ prc' = ERROR_CONFIG_INVALID_PARAMETER
                          /\ pc' = "cleanup"
                     ELSE /\ gProject' = [named EXCEPT !.mvbc_device_count = count]
                          /\ prc' = 0
                          /\ pc' = IF 0 < count THEN "device" ELSE "cleanup"
                ELSE /\ gProject' = named
                     /\ prc' = ERROR_CONFIG_FILE_PARAMETER
                     /\ pc' = "cleanup"
    /\ UNCHANGED <<doc, devRc, spill, rc, i, cmds, ret, varg, vres, prior>>

\* One iteration of the device loop of the loader, for device pi.  A write
\* behind the end of port[] is undefined behaviour: the run goes on with the
\* memory behind the array overwritten, or it is killed.
ParseDevice ==
    /\ pc = "device"
    /\ LET b == ParseDeviceBody(doc.devices.arr[pi + 1], gProject.mvbc[pi])
       IN  /\ gProject' \in Overflown([gProject EXCEPT !.mvbc[pi] = b.d], pi, b.oob)
           /\ prc' = b.rc
           /\ devRc' = Append(devRc, [dev |-> pi, rc |-> b.rc, brk |-> b.brk])
           /\ spill' = spill \cup {<<pi, w[1], w[2]>> : w \in b.oob}
           /\ pi' = IF b.brk THEN pi ELSE pi + 1
           /\ \/ pc' = IF b.brk \/ ~(pi + 1 < gProject.mvbc_device_count)
                       THEN "cleanup" ELSE "device"
              \/ /\ b.oob # {}
                 /\ pc' = "crashed"
    /\ UNCHANGED <<doc, tree, rc, i, cmds, ret, varg, vres, prior>>

\* the loader returning without the release of rootValue
json_value_free_Leaking(value) == value

\* json_value_free(rootValue): the tree is released; the pointer is dead
json_value_free(value) == "freed"

\* The cleanup and return of the loader, and mvbc_init up to the first test
\* of its for loop: rc |= <result of the loader>.
ParseEnd ==
    /\ pc = "cleanup"
    /\ tree' = json_value_free(tree)
    /\ rc' = BitOr(0, prc)
    /\ i' = 0
    /\ IF 0 < gProject.mvbc_device_count
       THEN pc' = "shutdown" /\ ret' = ret
       ELSE pc' = "done" /\ ret' = BitOr(0, prc)
    /\ UNCHANGED <<doc, gProject, prc, pi, devRc, spill, cmds, varg, vres, prior>>

\* rc = mvbc_shutdown(gProject.mvbc[i].cDevPath); if (rc < 0) return rc;
Shutdown ==
    /\ pc = "shutdown"
    /\ LET dev == gProject.mvbc[i].cDevPath
       IN  \E r \in SendCmdResults(dev) :
             /\ cmds' = cmds \o SendCmdLog(dev, i, "EL_MVBC_SHUTDOWN_DEVICE", NoArg, r)
             /\ rc' = r
             /\ IF r < 0 THEN pc' = "done" /\ ret' = r
                         ELSE pc' = "reset" /\ ret' = ret
    /\ UNCHANGED <<doc, gProject, tree, prc, pi, devRc, spill, i, varg, vres, prior>>

\* rc |= mvbc_reset_device(&gProject.mvbc[i]); if (rc < 0) return rc;
ResetDevice ==
    /\ pc = "reset"
    /\ LET dev == gProject.mvbc[i].cDevPath
       IN  \E r \in SendCmdResults(dev) :
             LET result == BitOr(NO_ERROR, r)
                 rc2 == BitOr(rc, result)
             IN  /\ cmds' = cmds \o SendCmdLog(dev, i, "EL_MVBC_RESET_DEVICE", NoArg, r)
                 /\ rc' = rc2
                 /\ IF rc2 < 0 THEN pc' = "done" /\ ret' = rc2
                               ELSE pc' = "setdev" /\ ret' = ret
    /\ UNCHANGED <<doc, gProject, tree, prc, pi, devRc, spill, i, varg, vres, prior>>

\* rc |= mvbc_set_device_configuration(&gProject.mvbc[i]); if (rc < 0) return rc;
SetDeviceConfiguration ==
    /\ pc = "setdev"
    /\ LET dev == gProject.mvbc[i].cDevPath
       IN  \E r \in SendCmdResults(dev) :
             LET result == BitOr(ERROR_SET_DEVICE_CONFIG, r)
                 rc2 == BitOr(rc, result)
             IN  /\ cmds' = cmds \o
                        SendCmdLog(dev, i, "EL_MVBC_SET_DEVICE_CONFIGURATION", NoArg, r)
                 /\ rc' = rc2
                 /\ IF rc2 < 0 THEN pc' = "done" /\ ret' = rc2
                               ELSE pc' = "setport" /\ ret' = ret
    /\ UNCHANGED <<doc, gProject, tree, prc, pi, devRc, spill, i, varg, vres, prior>>

\* The ports mvbc_set_port_configuration may read at index j of device d: the
\* slot of the array, or, behind its end, what the loader wrote there or what
\* the memory held before.
PortsReadAt(d, j) ==
    IF j < MAX_PORT_COUNT
    THEN {gProject.mvbc[d].portSetup.port[j]}
    ELSE {w[3] : w \in {x \in spill : x[1] = d /\ x[2] = j}} \cup {ZeroPort}

RECURSIVE OrAll(_, _, _)
OrAll(rs, j, acc) == IF j < 0 THEN acc ELSE OrAll(rs, j - 1, BitOr(acc, rs[j]))

\* PortLog with the ports sent from the last to the first
RECURSIVE PortLog_Reversed(_, _, _, _, _)
PortLog_Reversed(dev, d, ports, rs, j) ==
    IF j < 0 THEN << >>
    ELSE SendCmdLog(dev, d, "EL_MVBC_SET_PORT_CONFIGURATION",
                    PortConfigArg(ports[j].portCfg), rs[j])
         \o PortLog_Reversed(dev, d, ports, rs, j - 1)

RECURSIVE PortLog(_, _, _, _, _)
PortLog(dev, d, ports, rs, j) ==
    IF j < 0 THEN << >>
    ELSE PortLog(dev, d, ports, rs, j - 1)
         \o SendCmdLog(dev, d, "EL_MVBC_SET_PORT_CONFIGURATION",
                       PortConfigArg(ports[j].portCfg), rs[j])

\* rc |= mvbc_set_port_configuration(&gProject.mvbc[i]); if (rc < 0) return rc;
\* One command per counted port, every one sent whatever the others returned.
SetPortConfiguration ==
    /\ pc = "setport"
    /\ LET dev == gProject.mvbc[i].cDevPath
           n == gProject.mvbc[i].portSetup.mvbc_port_count
       IN  \E rs \in [0..(n - 1) -> SendCmdResults(dev)] :
           \E ports \in [0..(n - 1) -> UNION {PortsReadAt(i, j) : j \in 0..(n - 1)}] :
             /\ \A j \in 0..(n - 1) : ports[j] \in PortsReadAt(i, j)
             /\ LET result == OrAll(rs, n - 1, ERROR_SET_PORT_CONFIG)
                    rc2 == BitOr(rc, result)
                IN  /\ cmds' = cmds \o PortLog(dev, i, ports, rs, n - 1)
                    /\ rc' = rc2
                    /\ IF rc2 < 0 THEN pc' = "done" /\ ret' = rc2
                                  ELSE pc' = "run" /\ ret' = ret
    /\ UNCHANGED <<doc, gProject, tree, prc, pi, devRc, spill, i, varg, vres, prior>>

\* rc |= mvbc_run_device(&gProject.mvbc[i]); then i++ and the test of the loop
RunDevice ==
    /\ pc = "run"
    /\ LET dev == gProject.mvbc[i].cDevPath
       IN  \E r \in SendCmdResults(dev) :
             LET result == BitOr(ERROR_RUN_MVBC, r)
                 rc2 == BitOr(rc, result)
             IN  /\ cmds' = cmds \o SendCmdLog(dev, i, "EL_MVBC_RUN_DEVICE", NoArg, r)
                 /\ rc' = rc2
                 /\ i' = i + 1
                 /\ IF i + 1 < gProject.mvbc_device_count
                    THEN pc' = "shutdown" /\ ret' = ret
                    ELSE pc' = "done" /\ ret' = rc2
    /\ UNCHANGED <<doc, gProject, tree, prc, pi, devRc, spill, varg, vres, prior>>

Next ==
    \/ ParseBegin
    \/ ParseDevice
    \/ ParseEnd
    \/ Shutdown
    \/ ResetDevice
    \/ SetDeviceConfiguration
    \/ SetPortConfiguration
    \/ RunDevice

Spec == Init /\ [][Next]_vars

(***************************************************************************)
(* The integer validators as functions: one call of each on an argument    *)
(* drawn from -MaxNegArg..MaxArg, and the poll interval parse_port_config   *)
(* stores for a port and for the default-port section whose poll_ms is     *)
(* that number, that number and a half, absent, or a string.               *)
(***************************************************************************)
MaxNegArg == 3
MaxArg == 4098

ValidatorArgs == (0 - MaxNegArg)..MaxArg

PollDocValues(n) == {JNum(n), JTenths(10 * n + 5), JNull, JStr(STR_la)}

InitValidators ==
    /\ doc = BaseDocument
    /\ pc = "validate"
    /\ gProject = ZeroProject
    /\ tree = "none"
    /\ prc = 0
    /\ pi = 0
    /\ devRc = << >>
    /\ spill = {}
    /\ rc = 0
    /\ i = 0
    /\ cmds = << >>
    /\ ret = 0
    /\ varg \in ValidatorArgs
    /\ vres = NoResults
    /\ prior = ZeroProject

CallValidators ==
    /\ pc = "validate"
    /\ pc' = "validated"
    /\ vres' =
         [deviceAddr |-> validateDeviceAddr(varg),
          portAddr |-> validatePortAddr(varg),
          fcode |-> validateFunctionalCode(varg),
          poll |-> validatePollingTimeout(varg),
          irq |-> validateInterruptNumber(varg),
          numData |-> validateNumericalData(varg),
          stored |-> {PortPollField([BasePort EXCEPT !.poll_ms = v], ZeroPort) :
                         v \in PollDocValues(varg)},
          dfltStored |->
              {DefaultPollField([NoDefault EXCEPT !.poll_ms = v],
                                [rc |-> NO_ERROR, ps |-> ZeroPorts, oob |-> {}]) :
                  v \in PollDocValues(varg)}]
    /\ UNCHANGED <<doc, gProject, tree, prc, pi, devRc, spill, rc, i, cmds, ret, varg, prior>>

NextValidators == CallValidators

SpecValidators == InitValidators /\ [][NextValidators]_vars

(***************************************************************************)
(* Properties.                                                             *)
(***************************************************************************)
\* mvbc_parse_project_configuration has returned (its result is prc)
LoaderReturned == tree = "freed"

\* the JSON object of device k of the document
DocDevice(k) == doc.devices.arr[k + 1]

\* the devices the loader counted
CountedDevices == 0..(gProject.mvbc_device_count - 1)

\* C1: failure propagation.  When the loader has returned and the iteration
\* for some device left a failure (a device-level mandatory field failed, or
\* parse_port_config returned an error), the loader's result is non-zero and
\* that iteration was the last one: no later device was processed.
C1_FailurePropagates ==
    LoaderReturned =>
        \A k \in 1..Len(devRc) :
            devRc[k].rc # NO_ERROR => (prc # NO_ERROR /\ k = Len(devRc))

\* C2: mvbc_init refuses to touch hardware on a failed load.  Whenever the
\* loader has returned a non-zero code, no command has reached the driver.
C2_NoCommandAfterFailedLoad ==
    (LoaderReturned /\ prc # NO_ERROR) => cmds = << >>

\* a static list is consulted for the device object dev
UsesStaticList(dev) ==
    /\ dev.mode.type = JSONString
    /\ dev.mode.str \in {STR_static, STR_combined}

\* C3: port capacity.  No slot behind port[MAX_PORT_COUNT - 1] is ever
\* written, every stored port count is at most MAX_PORT_COUNT, and when the
\* loader has returned, a processed device whose config.static has more than
\* MAX_PORT_COUNT entries has made the load return an error.
C3_PortCapacity ==
    /\ spill = {}
    /\ \A d \in 0..(MAX_MVBC_DEVICES - 1) :
           gProject.mvbc[d].portSetup.mvbc_port_count <= MAX_PORT_COUNT
    /\ LoaderReturned =>
           \A k \in 1..Len(devRc) :
               (/\ ~devRc[k].brk
                /\ UsesStaticList(DocDevice(devRc[k].dev))
                /\ ArrayCount(DocDevice(devRc[k].dev).static) > MAX_PORT_COUNT)
               => prc # NO_ERROR

\* C4: mvbc_init returns 0 on success.  When mvbc_init has returned after a
\* load that gave NO_ERROR, with the driver reached for every device and
\* every command answered 0, the value returned is 0.
C4_InitReturnsZeroOnSuccess ==
    (/\ pc = "done"
     /\ prc = NO_ERROR
     /\ \A d \in CountedDevices : HasDevPrefix(gProject.mvbc[d].cDevPath)
     /\ \A k \in 1..Len(cmds) : cmds[k].rc = 0)
    => ret = 0

\* C8: no zero-device success.  When the loader has returned NO_ERROR the
\* project has at least one device, and a project.devices that is missing
\* or no array gives ERROR_CONFIG_FILE_PARAMETER.
C8_NoZeroDeviceSuccess ==
    LoaderReturned =>
        /\ prc = NO_ERROR => gProject.mvbc_device_count >= 1
        /\ (doc.root = JSONObject /\ doc.devices.type # JSONArray)
               => prc = ERROR_CONFIG_FILE_PARAMETER

\* C9: config.static is required in static and combined mode.  A processed
\* device of mode static or combined whose config.static is absent or no
\* array has an error as the result of parse_port_config.
C9_StaticListRequired ==
    \A k \in 1..Len(devRc) :
        (/\ ~devRc[k].brk
         /\ UsesStaticList(DocDevice(devRc[k].dev))
         /\ DocDevice(devRc[k].dev).static.type # JSONArray)
        => devRc[k].rc # NO_ERROR

\* every character buffer of the project structure
StringBuffers ==
    {gProject.cProjectName, gProject.cProjectVersion}
    \cup {gProject.mvbc[d].cDevPath : d \in 0..(MAX_MVBC_DEVICES - 1)}
    \cup {gProject.mvbc[d].cDescription : d \in 0..(MAX_MVBC_DEVICES - 1)}
    \cup {gProject.mvbc[d].portSetup.port[j].cPortName :
              d \in 0..(MAX_MVBC_DEVICES - 1), j \in 0..(MAX_PORT_COUNT - 1)}

\* C10: string fields are always terminated.  Every string buffer of the
\* project holds a NUL within its MAX_STRING_LENGTH bytes.
C10_StringsTerminated ==
    \A buf \in StringBuffers : Len(buf) = MAX_STRING_LENGTH /\ Terminated(buf)

(***************************************************************************)
(* The document's view of a port and of a default-port section.            *)
(***************************************************************************)
\* the value v is present with the primitive type t and its validator rejects it
TypeFails(v) == v.type = JSONString /\ validatePortType(v.str) = -1
DirectionFails(v) == v.type = JSONString /\ validatePortDirection(v.str) = -1
IrqFails(v) == v.type = JSONNumber /\ validateInterruptNumber(ToInt(v.num)) = -1
NumDataFails(v) == v.type = JSONNumber /\ validateNumericalData(ToInt(v.num)) = -1

\* the mandatory fields of a port are numbers of their domains
MandatoryOK(port) ==
    /\ port.addr.type = JSONNumber
    /\ ToInt(port.addr.num) \in 1..4095
    /\ port.fcode.type = JSONNumber
    /\ ToInt(port.fcode.num) \in 0..15

\* an optional field of the port with a validator is present, of the right
\* type, and rejected
OptionalRejected(port) ==
    \/ TypeFails(port.type)
    \/ DirectionFails(port.direction)
    \/ IrqFails(port.irq)
    \/ NumDataFails(port.num_data)

ValidPort(port) == MandatoryOK(port) /\ ~OptionalRejected(port)

\* config.static is an array of valid ports that fits port[]
ValidStaticList(dev) ==
    /\ dev.static.type = JSONArray
    /\ Len(dev.static.arr) <= MAX_PORT_COUNT
    /\ \A q \in 1..Len(dev.static.arr) : ValidPort(dev.static.arr[q])

\* a field of the default-port section is present, of the right type, and
\* rejected
DefaultRejected(dflt) ==
    \/ TypeFails(dflt.type)
    \/ IrqFails(dflt.irq)
    \/ NumDataFails(dflt.num_data)

\* the value of an optional field under the defaulting policy: the validated
\* value, else the default
PolicyType(v) ==
    IF v.type = JSONString /\ ~TypeFails(v) THEN validatePortType(v.str)
    ELSE MVBC_JSON_CONF_DEFAULT_PORT_TYPE
PolicyDirection(v) ==
    IF v.type = JSONString /\ ~DirectionFails(v) THEN validatePortDirection(v.str)
    ELSE MVBC_JSON_CONF_DEFAULT_PORT_DIRECTION
PolicyPoll(v) ==
    IF v.type = JSONNumber
       /\ ToInt(v.num) \in {1, 2, 4, 8, 16, 32, 64, 128, 256, 512, 1024}
    THEN ToInt(v.num) ELSE MVBC_JSON_CONF_DEFAULT_PORT_POLL_MS
PolicyIrq(v) ==
    IF v.type = JSONNumber /\ ~IrqFails(v) THEN ToInt(v.num)
    ELSE MVBC_JSON_CONF_DEFAULT_PORT_IRQ
PolicyNumData(v) ==
    IF v.type = JSONNumber /\ ~NumDataFails(v) THEN ToInt(v.num)
    ELSE MVBC_JSON_CONF_DEFAULT_PORT_NUM_DATA

\* the port configuration the document gives for a port with valid
\* mandatory fields
DocPortCfg(port) ==
    [iPortAddr |-> ToInt(port.addr.num),
     iPortType |-> PolicyType(port.type),
     iPortDirection |-> PolicyDirection(port.direction),
     iFunctionCode |-> ToInt(port.fcode.num),
     iPollIntervalMS |-> PolicyPoll(port.poll_ms),
     iIrqNumber |-> PolicyIrq(port.irq),
     iNumData |-> PolicyNumData(port.num_data)]

\* the name the document gives for a port, cut to the buffer
DocPortName(port) ==
    IF port.name.type = JSONString
    THEN SubSeq(port.name.str, 1,
                IF Len(port.name.str) < MAX_STRING_LENGTH
                THEN Len(port.name.str) ELSE MAX_STRING_LENGTH)
    ELSE MVBC_JSON_CONF_DEFAULT_PORT_NAME

\* the slots of port[] of device d that the static list l reaches
SlotsOf(l) == 0..((IF Len(l) < MAX_PORT_COUNT THEN Len(l) ELSE MAX_PORT_COUNT) - 1)

\* device d holds the ports of the static list l: the count, and in every
\* slot of the array the list reaches the name and the values of the document
StaticPortsRetained(d, l) ==
    /\ gProject.mvbc[d].portSetup.mvbc_port_count = Len(l)
    /\ \A j \in SlotsOf(l) :
         LET slot == gProject.mvbc[d].portSetup.port[j]
         IN  /\ slot.portCfg = DocPortCfg(l[j + 1])
             /\ SubSeq(slot.cPortName, 1, Len(DocPortName(l[j + 1]))) = DocPortName(l[j + 1])

\* iteration k of the loader's device loop ran parse_port_config (no break)
Processed(k) == k \in 1..Len(devRc) /\ ~devRc[k].brk

\* the device of iteration k is of mode combined, has a valid static list
\* with at least one port and a config.default.type that is present but no
\* string
CombinedWrongTypedDefault(k) ==
    /\ Processed(k)
    /\ DocDevice(devRc[k].dev).mode = JStr(STR_combined)
    /\ ValidStaticList(DocDevice(devRc[k].dev))
    /\ Len(DocDevice(devRc[k].dev).static.arr) >= 1
    /\ DocDevice(devRc[k].dev).dflt.type.type \notin {JSONString, JSONAbsent}

\* C5 as stated: in the combined-mode scenario the static ports are retained
\* and parse_port_config returns a failure because of the default-port
\* section.
C5_WrongTypedDefaultFails ==
    \A k \in 1..Len(devRc) :
        CombinedWrongTypedDefault(k) =>
            /\ StaticPortsRetained(devRc[k].dev, DocDevice(devRc[k].dev).static.arr)
            /\ devRc[k].rc # NO_ERROR

\* C5 as amended: in the combined-mode scenario (a valid static list that
\* fits the port array, a config.default.type that is no string) the static
\* ports are retained, the template's type is the default eLA, and the
\* wrong-typed config.default.type produces no error: the result is NO_ERROR
\* unless another field of the default-port section is rejected by its
\* validator.
C5_WrongTypedDefaultIsDefaulted ==
    \A k \in 1..Len(devRc) :
        CombinedWrongTypedDefault(k) =>
            LET d == devRc[k].dev
            IN  /\ StaticPortsRetained(d, DocDevice(d).static.arr)
                /\ gProject.mvbc[d].portSetup.defaultPortCfg.wPortType
                       = MVBC_JSON_CONF_DEFAULT_PORT_TYPE
                /\ (devRc[k].rc = NO_ERROR) <=> ~DefaultRejected(DocDevice(d).dflt)

\* C5's case has happened: a combined device with a full array of valid
\* static ports, one of them with every key set, and a numeric
\* config.default.type has been parsed with NO_ERROR
C5_Witness ==
    \E k \in 1..Len(devRc) :
        /\ CombinedWrongTypedDefault(k)
        /\ DocDevice(devRc[k].dev).dflt.type.type = JSONNumber
        /\ Len(DocDevice(devRc[k].dev).static.arr) = MAX_PORT_COUNT
        /\ DocDevice(devRc[k].dev).static.arr[1] = FullPort
        /\ gProject.mvbc[devRc[k].dev].portSetup.mvbc_port_count = MAX_PORT_COUNT
        /\ devRc[k].rc = NO_ERROR

\* the default-port template the document gives under the defaulting policy
DocDefaultCfg(dflt) ==
    [wPortType |-> PolicyType(dflt.type),
     wPollInterval |-> PolicyPoll(dflt.poll_ms),
     iIrqNumber |-> PolicyIrq(dflt.irq),
     iNumData |-> PolicyNumData(dflt.num_data)]

\* the device object dev consults the default-port section
UsesDefaultSection(dev) ==
    /\ dev.mode.type = JSONString
    /\ dev.mode.str \in {STR_dynamic, STR_combined}

\* config.static is an array that fits port[] and whose ports have valid
\* mandatory fields (their optional fields are arbitrary)
MandatoryValidList(dev) ==
    /\ dev.static.type = JSONArray
    /\ Len(dev.static.arr) <= MAX_PORT_COUNT
    /\ \A q \in 1..Len(dev.static.arr) : MandatoryOK(dev.static.arr[q])

\* C6: optional parameters never fail the load.  For a processed device
\* whose ports have valid mandatory fields, whatever the optional fields of
\* the ports and of the default-port section hold, parse_port_config
\* returns NO_ERROR, every port holds the validated value or the default of
\* each optional field, and so does the default-port template.
C6_OptionalNeverFails ==
    \A k \in 1..Len(devRc) :
        LET d == devRc[k].dev
            dev == DocDevice(d)
        IN  (Processed(k) /\ (UsesStaticList(dev) => MandatoryValidList(dev))) =>
                /\ devRc[k].rc = NO_ERROR
                /\ UsesStaticList(dev) => StaticPortsRetained(d, dev.static.arr)
                /\ UsesDefaultSection(dev) =>
                       gProject.mvbc[d].portSetup.defaultPortCfg = DocDefaultCfg(dev.dflt)

\* the fields of struct sMvbcPortCfg that the loop body writes after the
\* address, in the order of the code
FieldOrder ==
    <<"iPortType", "iPortDirection", "iFunctionCode", "iPollIntervalMS",
      "iIrqNumber", "iNumData">>

\* the place in FieldOrder of the first rejected optional field of a port
\* with valid mandatory fields
FirstRejected(port) ==
    IF TypeFails(port.type) THEN 1
    ELSE IF DirectionFails(port.direction) THEN 2
    ELSE IF IrqFails(port.irq) THEN 5
    ELSE 6

\* the first port of the list l that is not valid (0 when all are valid)
FirstInvalid(l) ==
    IF \A q \in 1..Len(l) : ValidPort(l[q]) THEN 0
    ELSE CHOOSE q \in 1..Len(l) :
             ~ValidPort(l[q]) /\ \A q2 \in 1..(q - 1) : ValidPort(l[q2])

\* the first invalid port of the static list of the device of iteration k is
\* one with valid mandatory fields and a rejected optional field
RejectedOptionalCase(k) ==
    /\ Processed(k)
    /\ UsesStaticList(DocDevice(devRc[k].dev))
    /\ DocDevice(devRc[k].dev).static.type = JSONArray
    /\ LET l == DocDevice(devRc[k].dev).static.arr
       IN  /\ FirstInvalid(l) # 0
           /\ MandatoryOK(l[FirstInvalid(l)])

\* the values a stored poll interval may have
PollIntervals == {1, 2, 4, 8, 16, 32, 64, 128, 256, 512, 1024}

PortCommands == {k \in 1..Len(cmds) : cmds[k].cmd = "EL_MVBC_SET_PORT_CONFIGURATION"}

\* the index j of the port that command k of the log is sent for
PortIndex(k) ==
    Cardinality({m \in 1..(k - 1) : m \in PortCommands /\ cmds[m].dev = cmds[k].dev})

\* the ports command k may have been built from: the slot port[j] (behind
\* the end of the array, what may lie there) whose address, function code
\* and type the command carries
SentPorts(k) ==
    {p \in PortsReadAt(cmds[k].dev, PortIndex(k)) :
        /\ cmds[k].arg.wPortAddr = p.portCfg.iPortAddr
        /\ cmds[k].arg.wFuncCode = p.portCfg.iFunctionCode
        /\ cmds[k].arg.wPortType = p.portCfg.iPortType}

InPackRange(cfg) ==
    /\ cfg.iFunctionCode \in 0..15
    /\ cfg.iPortDirection \in {0, 1}
    /\ cfg.iNumData \in {0, 1}
    /\ cfg.iIrqNumber \in 0..7

\* bits lo .. lo + n - 1 of the word w as a number
Bits(w, lo, n) == (w \div (2 ^ lo)) % (2 ^ n)

\* (fcode << 12) | (1 << (10 + direction)) | (num_data << 1) | (irq << 5 if
\* irq != 0 else 0): the four fields lie on disjoint bits, so the word is
\* their sum
LayoutWord(cfg) ==
    cfg.iFunctionCode * 4096
    + (IF cfg.iPortDirection = 0 THEN 1024 ELSE 2048)
    + cfg.iNumData * 2
    + (IF cfg.iIrqNumber # 0 THEN cfg.iIrqNumber * 32 ELSE 0)

\* C11: control-word layout.  For every port configuration sent to the
\* driver whose port has fcode in 0..15, direction in {0,1}, num_data in
\* {0,1} and irq in 0..7, wPCS_W0 is the word of the layout: bits 12-15 hold
\* fcode, exactly one of bits 10 and 11 is set (bit 10 + direction), bit 1
\* holds num_data, bits 5-7 hold irq, every other bit (0, 2-4, 8, 9) is
\* zero, and the word fits in 16 bits.
C11_ControlWordLayout ==
    \A k \in PortCommands :
        \E p \in SentPorts(k) :
            InPackRange(p.portCfg) =>
                LET w == cmds[k].arg.wPCS_W0
                    cfg == p.portCfg
                IN  /\ w = LayoutWord(cfg)
                    /\ w \in 0..65535
                    /\ Bits(w, 12, 4) = cfg.iFunctionCode
                    /\ Bits(w, 10, 1) + Bits(w, 11, 1) = 1
                    /\ Bits(w, 10 + cfg.iPortDirection, 1) = 1
                    /\ Bits(w, 1, 1) = cfg.iNumData
                    /\ Bits(w, 5, 3) = cfg.iIrqNumber
                    /\ Bits(w, 0, 1) = 0
                    /\ Bits(w, 2, 3) = 0
                    /\ Bits(w, 8, 2) = 0

\* C11's case has happened: a port with fcode 15, direction source,
\* num_data 1 and irq 7 was sent to the driver with the word 0xF8E2
C11_Witness ==
    \E k \in PortCommands :
        \E p \in SentPorts(k) :
            /\ p.portCfg.iFunctionCode = 15
            /\ p.portCfg.iPortDirection = eSource
            /\ p.portCfg.iNumData = 1
            /\ p.portCfg.iIrqNumber = 7
            /\ cmds[k].arg.wPCS_W0 = 63714

\* C12: interrupt takes precedence over polling.  For every port
\* configuration sent to the driver: when the port's irq is not 0, bits 5-7
\* of wPCS_W0 are the irq and the transmitted wPollInterval is 0 whatever
\* the stored poll interval is; when irq is 0, bits 5-7 are zero and
\* wPollInterval is the stored poll interval.  Never are interrupt bits and
\* a poll interval both sent.
C12_InterruptBeforePolling ==
    \A k \in PortCommands :
        \E p \in SentPorts(k) :
            LET w == cmds[k].arg.wPCS_W0
                cfg == p.portCfg
            IN  /\ cfg.iIrqNumber # 0 =>
                       /\ Bits(w, 5, 3) = cfg.iIrqNumber
                       /\ cmds[k].arg.wPollInterval = 0
                /\ cfg.iIrqNumber = 0 =>
                       /\ Bits(w, 5, 3) = 0
                       /\ cmds[k].arg.wPollInterval = cfg.iPollIntervalMS
                /\ ~(Bits(w, 5, 3) # 0 /\ cmds[k].arg.wPollInterval # 0)

\* C12's case has happened: a port stored with irq 3 and poll interval 64
\* was sent with interrupt bits 011 and no poll interval, and a port stored
\* with irq 0 was sent with its poll interval
C12_Witness ==
    /\ \E k \in PortCommands :
         \E p \in SentPorts(k) :
            /\ p.portCfg.iIrqNumber = 3
            /\ p.portCfg.iPollIntervalMS = 64
            /\ Bits(cmds[k].arg.wPCS_W0, 5, 3) = 3
            /\ cmds[k].arg.wPollInterval = 0
    /\ \E k \in PortCommands :
         \E p \in SentPorts(k) :
            /\ p.portCfg.iIrqNumber = 0
            /\ cmds[k].arg.wPollInterval = p.portCfg.iPollIntervalMS
            /\ cmds[k].arg.wPollInterval # 0

(***************************************************************************)
(* The device count.                                                       *)
(***************************************************************************)
\* the device-level mandatory fields of a device object are legal
HeaderOK(dev) ==
    /\ dev.path.type = JSONString
    /\ dev.interface.type = JSONString
    /\ dev.interface.str \in {STR_EMD, STR_ESD}
    /\ dev.device_addr.type = JSONNumber
    /\ ToInt(dev.device_addr.num) \in 1..4095
    /\ dev.mode.type = JSONString
    /\ dev.mode.str \in Modes

\* a device object the loader has nothing to reject in
ValidDevice(dev) ==
    /\ HeaderOK(dev)
    /\ UsesStaticList(dev) => ValidStaticList(dev)
    /\ UsesDefaultSection(dev) => ~DefaultRejected(dev.dflt)

\* project.devices is an array of n entries
DevicesArrayOf(n) ==
    /\ doc.root = JSONObject
    /\ doc.devices.type = JSONArray
    /\ Len(doc.devices.arr) = n

\* C13: device-count boundary.  A project.devices array of exactly
\* MAX_MVBC_DEVICES valid devices loads with NO_ERROR and
\* mvbc_device_count = MAX_MVBC_DEVICES.  For an array with more entries no
\* device is processed and no device slot is written at any time after the
\* memset, the device count stays 0 and the loader returns
\* ERROR_CONFIG_INVALID_PARAMETER.
C13_DeviceCountBoundary ==
    /\ (/\ LoaderReturned
        /\ DevicesArrayOf(MAX_MVBC_DEVICES)
        /\ \A k \in 1..MAX_MVBC_DEVICES : ValidDevice(doc.devices.arr[k]))
       => /\ prc = NO_ERROR
          /\ gProject.mvbc_device_count = MAX_MVBC_DEVICES
          /\ Len(devRc) = MAX_MVBC_DEVICES
    /\ (/\ pc # "parse"
        /\ \E n \in (MAX_MVBC_DEVICES + 1)..(MAX_MVBC_DEVICES + 2) : DevicesArrayOf(n))
       => /\ devRc = << >>
          /\ gProject.mvbc_device_count = 0
          /\ gProject.mvbc = ZeroProject.mvbc
          /\ prc = ERROR_CONFIG_INVALID_PARAMETER
          /\ pc \in {"cleanup", "done"}

\* C13's case has happened: the load of MAX_MVBC_DEVICES valid devices, one
\* of them of mode combined, has returned NO_ERROR with all of them counted
C13_Witness ==
    /\ LoaderReturned
    /\ DevicesArrayOf(MAX_MVBC_DEVICES)
    /\ \A k \in 1..MAX_MVBC_DEVICES : ValidDevice(doc.devices.arr[k])
    /\ \E k \in 1..MAX_MVBC_DEVICES : doc.devices.arr[k].mode = JStr(STR_combined)
    /\ prc = NO_ERROR
    /\ gProject.mvbc_device_count = MAX_MVBC_DEVICES

\* the other side of C13's boundary has happened: an array of
\* MAX_MVBC_DEVICES + 1 devices was refused
C13_RefusedReached ==
    /\ LoaderReturned
    /\ DevicesArrayOf(MAX_MVBC_DEVICES + 1)
    /\ prc = ERROR_CONFIG_INVALID_PARAMETER

(***************************************************************************)
(* The load as a function of the document.                                 *)
(***************************************************************************)
\* no static list the loader may parse is longer than port[]
FitsCapacity(document) ==
    document.devices.type = JSONArray =>
        \A k \in 1..Len(document.devices.arr) :
            LET dev == document.devices.arr[k]
            IN  (UsesStaticList(dev) /\ dev.static.type = JSONArray) =>
                    Len(dev.static.arr) <= MAX_PORT_COUNT

\* the document is an object whose devices are all valid, at least one and
\* at most MAX_MVBC_DEVICES
ValidDocument(document) ==
    /\ document.root = JSONObject
    /\ document.devices.type = JSONArray
    /\ Len(document.devices.arr) \in 1..MAX_MVBC_DEVICES
    /\ \A k \in 1..Len(document.devices.arr) : ValidDevice(document.devices.arr[k])

\* C14: the load is deterministic and replaces the prior state.  Whatever
\* the structure held when the loader was called (zeroes, the result of an
\* earlier load of another document, anything else), the Project and the
\* result code the loader returns with are an outcome of the document alone,
\* that of a load into a zeroed structure; a document whose static lists
\* fit port[], so every valid document, has exactly one outcome, hence two
\* loads of it give equal Projects.
C14_LoadDependsOnDocumentOnly ==
    LoaderReturned =>
        /\ [proj |-> gProject, rc |-> prc] \in Load(doc)
        /\ FitsCapacity(doc) => Cardinality(Load(doc)) = 1
        /\ ValidDocument(doc) => FitsCapacity(doc)

\* C14's case has happened: a valid document with one device was loaded
\* into the structure that held the result of the load of another document
\* with more devices and ports, and the Project is that of the document:
\* nothing of the earlier load is left
C14_Witness ==
    /\ LoaderReturned
    /\ prior \in {o.proj : o \in Load(EarlierDocument)}
    /\ prior # ZeroProject
    /\ ValidDocument(doc)
    /\ Len(doc.devices.arr) = 1
    /\ Len(doc.devices.arr[1].static.arr) = 1
    /\ prc = NO_ERROR
    /\ Load(doc) = {[proj |-> gProject, rc |-> prc]}
    /\ gProject.mvbc_device_count = 1
    /\ gProject.mvbc[1] = ZeroDevCfg
    /\ gProject.mvbc[0].portSetup.port[1] = ZeroPort
    /\ prior.mvbc[1] # ZeroDevCfg

(***************************************************************************)
(* The defaults.                                                           *)
(***************************************************************************)
\* the characters of a string that fit a buffer
Capped(str) ==
    SubSeq(str, 1, IF Len(str) < MAX_STRING_LENGTH THEN Len(str) ELSE MAX_STRING_LENGTH)

\* a document that holds the mandatory fields only, with legal values, for
\* one static device with one port
MinimalDocument ==
    /\ doc.root = JSONObject
    /\ doc.name = JNull
    /\ doc.version = JNull
    /\ doc.devices.type = JSONArray
    /\ Len(doc.devices.arr) = 1
    /\ LET dev == doc.devices.arr[1]
       IN  /\ HeaderOK(dev)
           /\ dev.mode = JStr(STR_static)
           /\ dev.description = JNull
           /\ dev.traffic_memory = JNull
           /\ dev.dflt = NoDefault
           /\ dev.static.type = JSONArray
           /\ Len(dev.static.arr) = 1
           /\ LET port == dev.static.arr[1]
              IN  /\ MandatoryOK(port)
                  /\ port.name = JNull
                  /\ port.type = JNull
                  /\ port.direction = JNull
                  /\ port.poll_ms = JNull
                  /\ port.irq = JNull
                  /\ port.num_data = JNull

Validated == pc = "validated"

C17_RangeValidators ==
    Validated =>
        /\ vres.portAddr = (IF varg \in 1..4095 THEN varg ELSE -1)
        /\ vres.deviceAddr = (IF varg \in 1..4095 THEN varg ELSE -1)
        /\ vres.fcode = (IF varg \in 0..15 THEN varg ELSE -1)
        /\ vres.irq = (IF varg \in 0..7 THEN varg ELSE -1)
        /\ vres.numData = (IF varg \in {0, 1} THEN varg ELSE -1)

\* C17's case has happened: the validators were called on 0, which the two
\* address validators refuse and the other three accept
C17_Witness ==
    /\ Validated
    /\ varg = 0
    /\ vres.portAddr = -1
    /\ vres.deviceAddr = -1
    /\ vres.fcode = 0
    /\ vres.irq = 0
    /\ vres.numData = 0

\* the ends of C17's domains have been reached: 4095 accepted and 4096
\* refused by the address validators
C17_UpperEndReached ==
    /\ Validated
    /\ \/ varg = 4095 /\ vres.portAddr = 4095 /\ vres.deviceAddr = 4095
       \/ varg = 4096 /\ vres.portAddr = -1 /\ vres.deviceAddr = -1

(***************************************************************************)
(* The default-port section in static mode.                                *)
(***************************************************************************)
\* the device of iteration k is of mode static and its ports were parsed
StaticModeCase(k) ==
    /\ Processed(k)
    /\ DocDevice(devRc[k].dev).mode = JStr(STR_static)

\* the result of parse_port_config for a static list: an error iff the list
\* has an invalid port
StaticListResult(dev) ==
    IF dev.static.type = JSONArray /\ FirstInvalid(dev.static.arr) # 0
    THEN ERROR_CONFIG_FILE_PARAMETER
    ELSE NO_ERROR

\* C18: static mode ignores the default-port section.  For a device of mode
\* static whose ports were parsed, the default-port template is as the
\* memset left it, the result of parse_port_config is that of the static
\* list alone (no value under config.default makes it an error), and the
\* ports of the device are those parse_port_config gives for the same
\* device without a config.default.
C18_StaticIgnoresDefaultSection ==
    \A k \in 1..Len(devRc) :
        StaticModeCase(k) =>
            LET d == devRc[k].dev
                dev == DocDevice(d)
                ps == gProject.mvbc[d].portSetup
                plain == parse_port_config([dev EXCEPT !.dflt = NoDefault],
                                           ZeroPorts, eStatic)
            IN  /\ ps.defaultPortCfg = ZeroDefaultPortCfg
                /\ devRc[k].rc = StaticListResult(dev)
                /\ devRc[k].rc = plain.rc
                /\ ps = plain.ps

\* C18's case has happened: a static device with two valid ports whose
\* config.default has a type that is no string and an irq out of range was
\* parsed with NO_ERROR, its default-port template still zero
C18_Witness ==
    \E k \in 1..Len(devRc) :
        /\ StaticModeCase(k)
        /\ DocDevice(devRc[k].dev).dflt = [NoDefault EXCEPT !.type = JNum(1), !.irq = JNum(8)]
        /\ ValidStaticList(DocDevice(devRc[k].dev))
        /\ Len(DocDevice(devRc[k].dev).static.arr) = 2
        /\ devRc[k].rc = NO_ERROR
        /\ gProject.mvbc[devRc[k].dev].portSetup.defaultPortCfg = ZeroDefaultPortCfg
        /\ prior = DirtyProject

(***************************************************************************)
(* The order of the commands of mvbc_init.                                 *)
(***************************************************************************)
\* the commands of the log that were sent to device d, in order
DeviceCommands(d) ==
    LET ForDevice(c) == c.dev = d
    IN  SelectSeq(cmds, ForDevice)

\* the q-th command of the full sequence for a device with n ports
SequenceCommand(n, q) ==
    IF q = 1 THEN "EL_MVBC_SHUTDOWN_DEVICE"
    ELSE IF q = 2 THEN "EL_MVBC_RESET_DEVICE"
    ELSE IF q = 3 THEN "EL_MVBC_SET_DEVICE_CONFIGURATION"
    ELSE IF q <= 3 + n THEN "EL_MVBC_SET_PORT_CONFIGURATION"
    ELSE IF q = 4 + n THEN "EL_MVBC_RUN_DEVICE"
    ELSE "none"

\* C19: order of the control operations.  No command reaches the driver
\* before the loader has returned.  The commands sent to a device are a
\* prefix of shutdown, reset, set-device-configuration, one
\* set-port-configuration per counted port, run; the j-th port command
\* carries port[j] (for a valid static list: the j-th port of the
\* document); the devices are served in the order of the document, no
\* command for a device after a command for a later one.
C19_OrderOfControlOperations ==
    /\ cmds # << >> => LoaderReturned
    /\ \A k \in 1..Len(cmds) : cmds[k].dev \in CountedDevices
    /\ \A k \in 1..(Len(cmds) - 1) : cmds[k].dev <= cmds[k + 1].dev
    /\ \A d \in CountedDevices :
         LET sent == DeviceCommands(d)
             n == gProject.mvbc[d].portSetup.mvbc_port_count
         IN  \A q \in 1..Len(sent) : sent[q].cmd = SequenceCommand(n, q)
    /\ \A k \in PortCommands :
         /\ SentPorts(k) # {}
         /\ (/\ doc.root = JSONObject
             /\ UsesStaticList(DocDevice(cmds[k].dev))
             /\ ValidStaticList(DocDevice(cmds[k].dev)))
            => cmds[k].arg.wPortAddr =
                   ToInt(DocDevice(cmds[k].dev).static.arr[PortIndex(k) + 1].addr.num)

\* C19's case has happened: two devices with one port each were brought up
\* one after the other, each with the full sequence
C19_Witness ==
    /\ pc = "done"
    /\ Len(cmds) = 10
    /\ cmds[1].cmd = "EL_MVBC_SHUTDOWN_DEVICE"
    /\ cmds[1].dev = 0
    /\ cmds[4].cmd = "EL_MVBC_SET_PORT_CONFIGURATION"
    /\ cmds[5].cmd = "EL_MVBC_RUN_DEVICE"
    /\ cmds[5].dev = 0
    /\ cmds[6].cmd = "EL_MVBC_SHUTDOWN_DEVICE"
    /\ cmds[6].dev = 1
    /\ cmds[9].cmd = "EL_MVBC_SET_PORT_CONFIGURATION"
    /\ cmds[10].cmd = "EL_MVBC_RUN_DEVICE"
    /\ cmds[10].dev = 1

\* ports of one device sent in the order of the document: address 4095
\* before address 1
C19_PortOrderReached ==
    \E k \in PortCommands :
        /\ k + 1 \in PortCommands
        /\ cmds[k].dev = cmds[k + 1].dev
        /\ cmds[k].arg.wPortAddr = 4095
        /\ cmds[k + 1].arg.wPortAddr = 1
        /\ DocDevice(cmds[k].dev).static.arr[1].addr = JNum(4095)

(***************************************************************************)
(* The parse tree (rootValue).                                             *)
(***************************************************************************)
\* the places of the run inside mvbc_parse_project_configuration after
\* json_parse_file, where the tree is read
InLoader == pc \in {"device", "cleanup"}

\* the places of the run after the loader has returned
AfterLoader == pc \in {"shutdown", "reset", "setdev", "setport", "run", "done"}

\* at every place the tree is read it is held or was never acquired (the
\* file did not parse), and after the return of the loader it is not held
TreeDiscipline ==
    /\ InLoader => tree \in {"held", "null"}
    /\ InLoader => (tree = "held" <=> doc.root # JSONAbsent)
    /\ AfterLoader => tree = "freed"

\* a held tree is left only by its release in the cleanup of the loader;
\* once released it stays released and the loader takes no further step
\* (no second release, no read of the tree)
TreeSteps ==
    /\ (tree = "held" /\ tree' # "held") => (tree' = "freed" /\ pc = "cleanup")
    /\ tree = "freed" => (tree' = "freed" /\ AfterLoader /\ AfterLoader')
    /\ (pc = "cleanup" /\ pc' # "cleanup") => (tree' = "freed" /\ AfterLoader')

\* C20: the parse tree is released on every path.  In every run of the
\* loader that acquired the tree, the tree is released exactly once, in
\* the cleanup before the return, on the success path as on every error
\* path (root no object, devices missing, too many devices, a device or a
\* port failed); the tree is held wherever the loader reads it and nothing
\* of the loader runs after the release.
C20_ParseTreeReleased == [][TreeSteps]_vars /\ []TreeDiscipline

\* C20's case has happened: the loader left its device loop by a break on
\* a failed device, with the tree held, and has returned with the tree
\* released
C20_Witness ==
    /\ AfterLoader
    /\ tree = "freed"
    /\ doc.root = JSONObject
    /\ prc = ERROR_CONFIG_FILE_PARAMETER
    /\ \E k \in 1..Len(devRc) : devRc[k].brk

\* the other error paths of C20 have been taken with the tree released: a
\* root that is no object, and too many devices
C20_RootPathReached ==
    tree = "freed" /\ doc.root = JSONArray /\ prc = ERROR_CONFIG_FILE_READ

C20_CountPathReached ==
    tree = "freed" /\ prc = ERROR_CONFIG_INVALID_PARAMETER

(***************************************************************************)
(* The ports a successful load exposes.                                    *)
(***************************************************************************)
\* slot j of device d is a counted port that lies in port[], whose address
\* and function code are in range and, where the device has a static list
\* in the document, are those of its port j
ValidatedSlot(d, j) ==
    /\ j < MAX_PORT_COUNT
    /\ LET cfg == gProject.mvbc[d].portSetup.port[j].portCfg
           dev == DocDevice(d)
       IN  /\ cfg.iPortAddr \in 1..4095
           /\ cfg.iFunctionCode \in 0..15
           /\ dev.static.type = JSONArray
           /\ j < Len(dev.static.arr)
           /\ MandatoryOK(dev.static.arr[j + 1])
           /\ cfg.iPortAddr = ToInt(dev.static.arr[j + 1].addr.num)
           /\ cfg.iFunctionCode = ToInt(dev.static.arr[j + 1].fcode.num)

\* C21: a successful load exposes only validated ports.  Whenever the
\* loader has returned NO_ERROR, every port at an index below
\* mvbc_port_count of every device at an index below mvbc_device_count has
\* an address in 1..4095 and a function code in 0..15, read from the
\* document and accepted by the validators: no counted slot is unparsed.
C21_SuccessExposesValidatedPorts ==
    (LoaderReturned /\ prc = NO_ERROR) =>
        \A d \in CountedDevices :
            \A j \in 0..(gProject.mvbc[d].portSetup.mvbc_port_count - 1) :
                ValidatedSlot(d, j)

(***************************************************************************)
(* The first failing driver command.                                       *)
(***************************************************************************)
\* C22: mvbc_init stops at the first failing driver command.  Once a
\* command that reached the driver (shutdown, reset,
\* set-device-configuration, a set-port-configuration, run) has returned a
\* negative code, it is the last command of the run, for its device and
\* for every later device, and mvbc_init has returned a negative code.
C22_StopsAtFirstFailingCommand ==
    \A k \in 1..Len(cmds) :
        cmds[k].rc < 0 =>
            /\ k = Len(cmds)
            /\ pc = "done"
            /\ ret < 0

\* the part of C22 that is about the commands before the ports: after a
\* failed shutdown, reset or set-device-configuration nothing more is sent
\* and mvbc_init has returned a negative code
C22_EarlyCommandsStop ==
    \A k \in 1..Len(cmds) :
        (/\ cmds[k].rc < 0
         /\ cmds[k].cmd \in {"EL_MVBC_SHUTDOWN_DEVICE", "EL_MVBC_RESET_DEVICE",
                             "EL_MVBC_SET_DEVICE_CONFIGURATION"})
        => (k = Len(cmds) /\ pc = "done" /\ ret < 0)

\* a failed run of a device followed by commands for the next device
C22_RunFailureIgnored ==
    \E k \in 1..(Len(cmds) - 1) :
        /\ cmds[k].cmd = "EL_MVBC_RUN_DEVICE"
        /\ cmds[k].rc < 0
        /\ cmds[k + 1].dev = cmds[k].dev + 1

\* mvbc_init has returned a code that is not negative although a driver
\* command failed
C22_FailureNotReturned ==
    /\ pc = "done"
    /\ ret >= 0
    /\ \E k \in 1..Len(cmds) : cmds[k].rc < 0

\* a failed set-port-configuration followed by one for the next port
C22_PortFailureIgnored ==
    \E k \in PortCommands :
        /\ cmds[k].rc < 0
        /\ k + 1 \in PortCommands
        /\ cmds[k + 1].dev = cmds[k].dev

====
